---- MODULE Spec2Model ----
(***************************************************************************)
(* Model of deep-research-py's question-generation pipeline:               *)
(*   translate.py      translate_to_english                                *)
(*   search_engine.py  Firecrawl.search, Tavily.search                     *)
(*   feedback.py       generate_feedback                                   *)
(*   app.py            ResearchSession, on_get_questions_fixed,            *)
(*                     on_start_research_async, research_handler           *)
(*                                                                         *)
(* A string is a sequence of tokens, each a piece of its text, <<>> the     *)
(* empty string; a query is a sequence of characters, Ord(ch) the code     *)
(* point of one.  A Python call either returns a value or raises: its      *)
(* outcome is a record [exc, value], exc = "none" on return.               *)
(* A chat-completion outcome is a record [kind, has, val]:                 *)
(*   kind = "raise"      the SDK call raised (network / provider error)    *)
(*   kind = "nocontent"  message.content is None                           *)
(*   kind = "invalid"    the content is not JSON                           *)
(*   kind = "nonobject"  the content is JSON, its top level not an object  *)
(*   kind = "object"     a JSON object; has: the wanted field is present,  *)
(*                       val: that field's value                           *)
(***************************************************************************)
EXTENDS Integers, Sequences, FiniteSets, TLC

VARIABLES
    \* ---- a stand-alone call of translate_to_english
    t_pc, t_text, t_resp, t_ret, t_calls,
    \* ---- a stand-alone call of <engine>.search
    s_pc, s_engine, s_limit, s_request, s_outcome, s_ret,
    \* ---- the global session of app.py, and the query_text of the call
    \*      whose questions session.questions holds
    session_query, session_questions, questions_for,
    \* ---- the event loop: the invocation that holds it, 0 when none does
    running,
    \* ---- per invocation of on_get_questions_fixed: its position, arguments,
    \*      and the locals of the generate_feedback frame it awaits
    pc, query_text, use_search_enhancement, query, search_result, context,
    prompt, response, outcome, log,
    \* ---- session.answers, and a stand-alone call of get_combined_query
    session_answers, c_pc, combined,
    \* ---- a call of on_start_research_async: its position, the texts of the
    \*      answer boxes it was given, the session's report parameters, and
    \*      the combined queries handed to deep_research and write_final_report
    r_pc, boxes, session_params, research_query, report_prompt

tvars == <<t_pc, t_text, t_resp, t_ret, t_calls>>
svars == <<s_pc, s_engine, s_limit, s_request, s_outcome, s_ret>>
sessvars == <<session_query, session_questions, questions_for>>
framevars == <<query_text, use_search_enhancement, query, search_result, context,
               prompt, response, outcome, log>>
fvars == <<sessvars, running, pc, framevars>>
cvars == <<session_answers, c_pc, combined>>
rvars == <<r_pc, boxes, session_params, research_query, report_prompt>>
vars == <<tvars, svars, fvars, cvars, rvars>>

(***************************************************************************)
(* Bounds of the model.                                                    *)
(***************************************************************************)
MaxTextLen == 2

(***************************************************************************)
(* Python outcomes.                                                        *)
(***************************************************************************)
Ok(v) == [exc |-> "none", value |-> v]
Raised(e, v) == [exc |-> e, value |-> v]

(***************************************************************************)
(* translate.py                                                            *)
(***************************************************************************)
CJK_FIRST == 19968
CJK_LAST == 40959

\* The characters the model draws text from: Latin letters and the
\* characters on either side of both ends of the CJK range.
Chars == {"A", "E", "n", "U+4DFF", "U+4E00", "U+9FFF", "U+A000"}

\* ord(ch)
Ord(ch) ==
    CASE ch = "A" -> 65
      [] ch = "E" -> 69
      [] ch = "n" -> 110
      [] ch = "U+4DFF" -> 19967
      [] ch = "U+4E00" -> 19968
      [] ch = "U+9FFF" -> 40959
      [] ch = "U+A000" -> 40960

InputChars == Chars \ {"E", "n"}

RECURSIVE SeqsUpTo(_, _)
SeqsUpTo(S, n) ==
    IF n = 0 THEN {<<>>}
    ELSE LET shorter == SeqsUpTo(S, n - 1)
         IN shorter \cup {Append(s, x) : s \in {t \in shorter : Len(t) = n - 1}, x \in S}

Texts == SeqsUpTo(InputChars, MaxTextLen)

\* What the translation model may answer with.
Translations == {<<"E">>, <<"E", "n">>}

NoResp == [kind |-> "unset", has |-> FALSE, val |-> <<>>]

TranslateResponses ==
    {[kind |-> k, has |-> FALSE, val |-> <<>>] :
        k \in {"raise", "nocontent", "invalid", "nonobject", "object"}}
    \cup {[kind |-> "object", has |-> TRUE, val |-> v] : v \in Translations}

\* As NeedsTranslation, with every non-ASCII character taken for Chinese.
NeedsTranslationNonAscii(text) ==
    \E i \in 1..Len(text) : Ord(text[i]) > 127

\* any(u'\u4e00' <= char <= u'\u9fff' for char in query)
NeedsTranslation(text) ==
    \E i \in 1..Len(text) : CJK_FIRST <= Ord(text[i]) /\ Ord(text[i]) <= CJK_LAST

\* json.loads(response.choices[0].message.content)
JsonLoads(resp, dflt) ==
    CASE resp.kind = "nocontent" -> Raised("TypeError", dflt)
      [] resp.kind = "invalid" -> Raised("JSONDecodeError", dflt)
      [] OTHER -> Ok(resp)

\* result.get(field, default) on the parsed value
DictGet(parsed, dflt) ==
    IF parsed.kind # "object" THEN Raised("AttributeError", dflt)
    ELSE IF parsed.has THEN Ok(parsed.val) ELSE Ok(dflt)

\* The body of the outer try, from the run_in_executor call to the return.
TranslateBody(text, resp) ==
    IF resp.kind = "raise" THEN Raised("APIError", text)
    ELSE LET loaded == JsonLoads(resp, text)
         IN IF loaded.exc = "JSONDecodeError" THEN Ok(text)
            ELSE IF loaded.exc # "none" THEN loaded
            ELSE DictGet(loaded.value, text)

\* As TranslateCatch, with a handler for the provider's error only.
TranslateCatchNarrow(text, body) ==
    IF body.exc = "APIError" THEN Ok(text) ELSE body

\* except Exception: return query
TranslateCatch(text, body) ==
    IF body.exc # "none" THEN Ok(text) ELSE body

\* The outcome of translate_to_english once the model call has ended in resp.
TranslateFinish(text, resp) == TranslateCatch(text, TranslateBody(text, resp))

\* ---- stand-alone call
T_Call ==
    /\ t_pc = "start"
    /\ IF NeedsTranslation(t_text)
       THEN /\ t_pc' = "await"
            /\ t_calls' = t_calls + 1
            /\ UNCHANGED t_ret
       ELSE /\ t_pc' = "done"
            /\ t_ret' = Ok(t_text)
            /\ UNCHANGED t_calls
    /\ UNCHANGED <<t_text, t_resp, svars, fvars, cvars, rvars>>

T_Resume ==
    /\ t_pc = "await"
    /\ \E resp \in TranslateResponses :
        /\ t_resp' = resp
        /\ t_ret' = TranslateFinish(t_text, resp)
    /\ t_pc' = "done"
    /\ UNCHANGED <<t_text, t_calls, svars, fvars, cvars, rvars>>

(***************************************************************************)
(* search_engine.py                                                        *)
(*                                                                         *)
(* Text carried in hits and answers is a sequence of tokens, <<>> the      *)
(* empty string.  A Python value that should be a list is a record         *)
(* [t, items]: t = "list" with its items, or t = "none" / "str" for None   *)
(* and for a string found in its place.                                     *)
(***************************************************************************)
MaxHits == 2
MaxLimit == 3
DefaultLimit == 5

Limits == (1..MaxLimit) \cup {DefaultLimit}
SearchQueries == {<<"A">>, <<"U+4E00">>}

PyList(items) == [t |-> "list", items |-> items]
PyNone == [t |-> "none", items |-> <<>>]
PyStr == [t |-> "str", items |-> <<>>]

Hit(title, url, markdown) == [title |-> title, url |-> url, markdown |-> markdown]

\* {"data": []}
EmptyResult == [data |-> PyList(<<>>), has_answer |-> FALSE, answer |-> <<>>]

Answers == {<<>>, <<"summary">>}

\* ---- Firecrawl
\* An item of a list response: a dict (appended as it is) or an object read
\* through getattr; meta is its metadata attribute: "absent", "none" (None),
\* "titled" or "untitled" (a dict with or without a title).
FirecrawlItems ==
    {[isdict |-> TRUE, url |-> "u1", markdown |-> <<"page1">>, content |-> <<>>,
      title |-> "T1", meta |-> "absent"],
     [isdict |-> FALSE, url |-> "u2", markdown |-> <<>>, content |-> <<"page2">>,
      title |-> "", meta |-> "titled"],
     [isdict |-> FALSE, url |-> "", markdown |-> <<>>, content |-> <<>>,
      title |-> "", meta |-> "absent"],
     [isdict |-> FALSE, url |-> "u3", markdown |-> <<"page3">>, content |-> <<>>,
      title |-> "", meta |-> "none"]}

FirecrawlHits == {Hit("T1", "u1", <<"page1">>)}

\* What self.app.search may end in: shape "raise", or a returned payload of
\* shape "dict_data" (a dict with a data key: data its value, has_answer
\* whether it also has an answer key), "dict_success" (success, no data),
\* "dict_other" (neither key), "list" (data its items) or "other" (None, a
\* string, an SDK object).
FirecrawlPayload(shape, data, has_answer) ==
    [shape |-> shape, data |-> data, has_answer |-> has_answer, answer |-> <<>>]

FirecrawlOutcomes ==
    {FirecrawlPayload(sh, PyNone, FALSE) :
        sh \in {"raise", "dict_success", "dict_other", "other"}}
    \cup {FirecrawlPayload("dict_data", PyList(h), a) :
            h \in SeqsUpTo(FirecrawlHits, MaxHits), a \in BOOLEAN}
    \cup {FirecrawlPayload("dict_data", d, a) : d \in {PyNone, PyStr}, a \in BOOLEAN}
    \cup {FirecrawlPayload("list", PyList(items), FALSE) :
            items \in SeqsUpTo(FirecrawlItems, MaxHits)}

\* lambda: self.app.search(query=query)
FirecrawlRequest(q, limit) == [query |-> q]

\* One item of a list response, formatted (the body of the for loop).
FirecrawlFormatItem(item) ==
    IF item.isdict THEN Ok(Hit(item.title, item.url, item.markdown))
    ELSE LET markdown == IF item.markdown # <<>> THEN item.markdown ELSE item.content
             title == IF item.title # "" THEN Ok(item.title)
                      ELSE CASE item.meta = "none" -> Raised("AttributeError", "")
                             [] item.meta = "titled" -> Ok("meta-title")
                             [] OTHER -> Ok("")
         IN IF title.exc # "none" THEN Raised(title.exc, Hit("", "", <<>>))
            ELSE Ok(Hit(title.value, item.url, markdown))

RECURSIVE FirecrawlFormatList(_)
FirecrawlFormatList(items) ==
    IF items = <<>> THEN Ok(<<>>)
    ELSE LET head == FirecrawlFormatItem(items[1])
             rest == FirecrawlFormatList(Tail(items))
         IN IF head.exc # "none" THEN Raised(head.exc, <<>>)
            ELSE IF rest.exc # "none" THEN rest
            ELSE Ok(<<head.value>> \o rest.value)

\* The body of the try.
FirecrawlBody(out) ==
    CASE out.shape = "raise" -> Raised("ProviderError", EmptyResult)
      [] out.shape = "dict_data" ->
            Ok([data |-> out.data, has_answer |-> out.has_answer, answer |-> out.answer])
      [] out.shape = "dict_success" -> Ok(EmptyResult)
      [] out.shape = "list" ->
            LET formatted == FirecrawlFormatList(out.data.items)
            IN IF formatted.exc # "none" THEN Raised(formatted.exc, EmptyResult)
               ELSE Ok([data |-> PyList(formatted.value), has_answer |-> FALSE,
                        answer |-> <<>>])
      [] OTHER -> Ok(EmptyResult)

\* except Exception: return {"data": []}
FirecrawlSearch(out) ==
    LET body == FirecrawlBody(out)
    IN IF body.exc # "none" THEN Ok(EmptyResult) ELSE body

\* ---- Tavily
\* An item of results: a dict (date_none: its published_date is None) or not.
TavilyItems ==
    {[isdict |-> TRUE, title |-> "T1", url |-> "u1", date |-> <<"2024-05-01">>,
      date_none |-> FALSE, content |-> <<"body1">>],
     [isdict |-> TRUE, title |-> "", url |-> "", date |-> <<>>,
      date_none |-> FALSE, content |-> <<>>],
     [isdict |-> TRUE, title |-> "T2", url |-> "u2", date |-> <<>>,
      date_none |-> TRUE, content |-> <<"body2">>],
     [isdict |-> FALSE, title |-> "", url |-> "", date |-> <<>>,
      date_none |-> FALSE, content |-> <<>>]}

\* What self.client.search may end in: shape "raise", "nondict" (the payload
\* is no dict) or "dict"; has_results: the dict has a results key, results
\* its value; has_answer and answer likewise.
TavilyPayload(shape, has_results, results, has_answer, answer) ==
    [shape |-> shape, has_results |-> has_results, results |-> results,
     has_answer |-> has_answer, answer |-> answer]

TavilyOutcomes ==
    {TavilyPayload(sh, FALSE, PyNone, FALSE, <<>>) : sh \in {"raise", "nondict", "dict"}}
    \cup {TavilyPayload("dict", TRUE, r, FALSE, <<>>) : r \in {PyNone, PyStr}}
    \cup {TavilyPayload("dict", TRUE, PyList(items), FALSE, <<>>) :
            items \in SeqsUpTo(TavilyItems, MaxHits)}
    \cup {TavilyPayload("dict", TRUE, PyList(items), TRUE, a) :
            items \in SeqsUpTo(TavilyItems, MaxHits), a \in Answers}

\* lambda: self.client.search(query=query, ..., max_results=limit, ...)
TavilyRequest(q, limit) ==
    [query |-> q, search_depth |-> "advanced", topic |-> "general", days |-> 5,
     max_results |-> limit, include_answer |-> TRUE, include_raw_content |-> TRUE]

\* One item of results, formatted (the body of the for loop).
TavilyFormatItem(item) ==
    IF ~item.isdict THEN Raised("AttributeError", Hit("", "", <<>>))
    ELSE IF item.date_none THEN Raised("TypeError", Hit("", "", <<>>))
    ELSE Ok(Hit(item.title, item.url, item.date \o <<"\n">> \o item.content))

RECURSIVE TavilyFormatList(_)
TavilyFormatList(items) ==
    IF items = <<>> THEN Ok(<<>>)
    ELSE LET head == TavilyFormatItem(items[1])
             rest == TavilyFormatList(Tail(items))
         IN IF head.exc # "none" THEN Raised(head.exc, <<>>)
            ELSE IF rest.exc # "none" THEN rest
            ELSE Ok(<<head.value>> \o rest.value)

\* The body of the try.
TavilyBody(out) ==
    CASE out.shape = "raise" -> Raised("ProviderError", EmptyResult)
      [] out.shape = "nondict" -> Raised("AttributeError", EmptyResult)
      [] OTHER ->
            LET results == IF out.has_results THEN out.results ELSE PyList(<<>>)
            IN CASE results.t = "none" -> Ok(EmptyResult)
                 [] results.t = "str" -> Raised("AttributeError", EmptyResult)
                 [] results.items = <<>> -> Ok(EmptyResult)
                 [] OTHER ->
                      LET formatted == TavilyFormatList(results.items)
                      IN IF formatted.exc # "none"
                         THEN Raised(formatted.exc, EmptyResult)
                         ELSE Ok([data |-> PyList(formatted.value), has_answer |-> TRUE,
                                  answer |-> IF out.has_answer THEN out.answer ELSE <<>>])

\* except Exception: return {"data": []}
TavilySearch(out) ==
    LET body == TavilyBody(out)
    IN IF body.exc # "none" THEN Ok(EmptyResult) ELSE body

\* ---- stand-alone call: SearchEngine(engine_type).engine.search(query, limit=limit)
Engines == {"firecrawl", "tavily"}

S_Call ==
    /\ s_pc = "start"
    /\ \E q \in SearchQueries :
        s_request' = IF s_engine = "firecrawl" THEN FirecrawlRequest(q, s_limit)
                     ELSE TavilyRequest(q, s_limit)
    /\ s_pc' = "await"
    /\ UNCHANGED <<s_engine, s_limit, s_outcome, s_ret, tvars, fvars, cvars, rvars>>

S_ResumeFirecrawl ==
    /\ s_pc = "await"
    /\ s_engine = "firecrawl"
    /\ \E out \in FirecrawlOutcomes :
        /\ s_outcome' = out
        /\ s_ret' = FirecrawlSearch(out)
    /\ s_pc' = "done"
    /\ UNCHANGED <<s_engine, s_limit, s_request, tvars, fvars, cvars, rvars>>

S_ResumeTavily ==
    /\ s_pc = "await"
    /\ s_engine = "tavily"
    /\ \E out \in TavilyOutcomes :
        /\ s_outcome' = out
        /\ s_ret' = TavilySearch(out)
    /\ s_pc' = "done"
    /\ UNCHANGED <<s_engine, s_limit, s_request, tvars, fvars, cvars, rvars>>

InitS ==
    /\ s_pc = "start"
    /\ s_engine \in Engines
    /\ s_limit \in Limits
    /\ s_request = <<>>
    /\ s_outcome = <<>>
    /\ s_ret = <<>>

NextSearch == S_Call \/ S_ResumeFirecrawl \/ S_ResumeTavily

(***************************************************************************)
(* feedback.py and app.py: on_get_questions_fixed awaiting                 *)
(* generate_feedback, NumCalls invocations on one event loop and one       *)
(* global session.  An invocation runs from one await of an executor call  *)
(* to the next without interruption (running = c); the executor call ends  *)
(* in an outcome drawn when the invocation is resumed.                     *)
(***************************************************************************)
NumCalls == 2
MaxFeedbackHits == 1
ContextBudget == 15000

Calls == 1..NumCalls

Min(a, b) == IF a <= b THEN a ELSE b

\* trim_prompt(text, size) of ai.providers: at most size units of the text.
TrimPrompt(text, size) == SubSeq(text, 1, Min(Len(text), size))

\* context = ""
EmptyContext == [intro |-> FALSE, contents |-> <<>>, answer |-> <<>>]

NoPrompt == [query |-> <<>>, context |-> EmptyContext]

\* What the invocations are asked and what the providers answer them.
FeedbackQueries == SearchQueries
FeedbackTranslations == {r \in TranslateResponses : r.val \in {<<>>, <<"E">>}}
FeedbackSearches ==
    {o \in TavilyOutcomes :
        /\ Len(o.results.items) <= MaxFeedbackHits
        /\ \A i \in 1..Len(o.results.items) : o.results.items[i].title # ""}
QuestionLists == {<<"Q1?", "Q2?", "Q3?">>, <<"Q2?", "Q1?">>}
FeedbackResponses ==
    {[kind |-> k, has |-> FALSE, val |-> <<>>] :
        k \in {"raise", "nocontent", "invalid", "nonobject", "object"}}
    \cup {[kind |-> "object", has |-> TRUE, val |-> v] : v \in QuestionLists}

\* contents = [trim_prompt(item.get("markdown", ""), 15_000)
\*             for item in search_result["data"] if item.get("markdown")]
RECURSIVE Contents(_)
Contents(items) ==
    IF items = <<>> THEN <<>>
    ELSE (IF items[1].markdown # <<>>
          THEN <<TrimPrompt(items[1].markdown, ContextBudget)>> ELSE <<>>)
         \o Contents(Tail(items))

\* The context built from a search result; iterating a data that is no list
\* of dicts raises.
BuildContext(result) ==
    CASE result.data.t = "none" -> Raised("TypeError", EmptyContext)
      [] result.data.t = "str" -> Raised("AttributeError", EmptyContext)
      [] OTHER -> Ok([intro |-> TRUE, contents |-> Contents(result.data.items),
                      answer |-> IF result.has_answer THEN result.answer ELSE <<>>])

\* As FeedbackParse, without the except clause.
FeedbackParseUncaught(resp) ==
    LET loaded == JsonLoads(resp, <<>>)
    IN IF loaded.exc # "none" THEN loaded ELSE DictGet(loaded.value, <<>>)

\* try: result = json.loads(...); return result.get("questions", [])
\* except json.JSONDecodeError: return []
FeedbackParse(resp) ==
    LET loaded == JsonLoads(resp, <<>>)
    IN IF loaded.exc = "JSONDecodeError" THEN Ok(<<>>)
       ELSE IF loaded.exc # "none" THEN loaded
       ELSE DictGet(loaded.value, <<>>)

\* How often an event is in a log.
Count(events, e) == Cardinality({i \in 1..Len(events) : events[i] = e})

Logged(c, events) == log' = [log EXCEPT ![c] = @ \o events]

\* The locals of a frame that has been left.
DropFrame(c) ==
    /\ query_text' = [query_text EXCEPT ![c] = <<>>]
    /\ use_search_enhancement' = [use_search_enhancement EXCEPT ![c] = FALSE]
    /\ query' = [query EXCEPT ![c] = <<>>]
    /\ search_result' = [search_result EXCEPT ![c] = EmptyResult]
    /\ context' = [context EXCEPT ![c] = EmptyContext]
    /\ prompt' = [prompt EXCEPT ![c] = NoPrompt]
    /\ response' = [response EXCEPT ![c] = NoResp]
    /\ outcome' = [outcome EXCEPT ![c] = Ok(<<>>)]
    /\ log' = [log EXCEPT ![c] = <<>>]

\* app.py: session.set_query(query_text), then the call of generate_feedback
\* up to its first statement.  Invocations are numbered in the order made.
Invoke(c) ==
    /\ running = 0
    /\ pc[c] = "idle"
    /\ \A d \in 1..(c - 1) : pc[d] # "idle"
    /\ \E q \in FeedbackQueries, u \in BOOLEAN :
        /\ session_query' = q
        /\ query_text' = [query_text EXCEPT ![c] = q]
        /\ use_search_enhancement' = [use_search_enhancement EXCEPT ![c] = u]
        /\ query' = [query EXCEPT ![c] = q]
    /\ running' = c
    /\ pc' = [pc EXCEPT ![c] = "start"]
    /\ UNCHANGED <<session_questions, questions_for, search_result, context, prompt,
                   response, outcome, log, tvars, svars, cvars, rvars>>

\* As Start, with the flag ignored.
StartAlwaysEnhance(c) ==
    /\ running = c
    /\ pc[c] = "start"
    /\ context' = [context EXCEPT ![c] = EmptyContext]
    /\ pc' = [pc EXCEPT ![c] = "normalize"]
    /\ UNCHANGED <<sessvars, running, query_text, use_search_enhancement, query,
                   search_result, prompt, response, outcome, log, tvars, svars, cvars, rvars>>

\* context = ""; if use_search_enhancement: ...
Start(c) ==
    /\ running = c
    /\ pc[c] = "start"
    /\ context' = [context EXCEPT ![c] = EmptyContext]
    /\ pc' = [pc EXCEPT ![c] = IF use_search_enhancement[c] THEN "normalize" ELSE "prompt"]
    /\ UNCHANGED <<sessvars, running, query_text, use_search_enhancement, query,
                   search_result, prompt, response, outcome, log, tvars, svars, cvars, rvars>>

\* query = await translate_to_english(query): up to its executor call, or
\* through it when there is nothing to translate.
Normalize(c) ==
    /\ running = c
    /\ pc[c] = "normalize"
    /\ IF NeedsTranslation(query[c])
       THEN /\ Logged(c, <<"normalize", "translate_call">>)
            /\ pc' = [pc EXCEPT ![c] = "await_translate"]
            /\ running' = 0
       ELSE /\ Logged(c, <<"normalize", "normalize_done">>)
            /\ pc' = [pc EXCEPT ![c] = "search"]
            /\ UNCHANGED running
    /\ UNCHANGED <<sessvars, query_text, use_search_enhancement, query, search_result,
                   context, prompt, response, outcome, tvars, svars, cvars, rvars>>

\* The translation call has ended: the rest of translate_to_english.
NormalizeResume(c) ==
    /\ running = 0
    /\ pc[c] = "await_translate"
    /\ \E resp \in FeedbackTranslations :
        LET got == TranslateFinish(query[c], resp)
        IN IF got.exc # "none"
           THEN /\ outcome' = [outcome EXCEPT ![c] = Raised(got.exc, <<>>)]
                /\ pc' = [pc EXCEPT ![c] = "raised"]
                /\ UNCHANGED query
           ELSE /\ query' = [query EXCEPT ![c] = got.value]
                /\ pc' = [pc EXCEPT ![c] = "search"]
                /\ UNCHANGED outcome
    /\ Logged(c, <<"normalize_done">>)
    /\ running' = c
    /\ UNCHANGED <<sessvars, query_text, use_search_enhancement, search_result,
                   context, prompt, response, tvars, svars, cvars, rvars>>

\* search_result = await search_engine.search(query, limit=5): up to the
\* executor call of Tavily.search.
Search(c) ==
    /\ running = c
    /\ pc[c] = "search"
    /\ Logged(c, <<"search", "search_call">>)
    /\ pc' = [pc EXCEPT ![c] = "await_search"]
    /\ running' = 0
    /\ UNCHANGED <<sessvars, query_text, use_search_enhancement, query, search_result,
                   context, prompt, response, outcome, tvars, svars, cvars, rvars>>

\* As SearchResume, with one more attempt after a search that found nothing.
SearchResumeRetry(c) ==
    /\ running = 0
    /\ pc[c] = "await_search"
    /\ \E out \in FeedbackSearches :
        LET got == TavilySearch(out)
        IN /\ search_result' = [search_result EXCEPT ![c] = got.value]
           /\ pc' = [pc EXCEPT ![c] =
                        IF got.value = EmptyResult /\ Count(log[c], "search_call") < 2
                        THEN "search" ELSE "context"]
           /\ UNCHANGED outcome
    /\ Logged(c, <<"search_done">>)
    /\ running' = c
    /\ UNCHANGED <<sessvars, query_text, use_search_enhancement, query, context,
                   prompt, response, tvars, svars, cvars, rvars>>

\* The search call has ended: the rest of Tavily.search.
SearchResume(c) ==
    /\ running = 0
    /\ pc[c] = "await_search"
    /\ \E out \in FeedbackSearches :
        LET got == TavilySearch(out)
        IN IF got.exc # "none"
           THEN /\ outcome' = [outcome EXCEPT ![c] = Raised(got.exc, <<>>)]
                /\ pc' = [pc EXCEPT ![c] = "raised"]
                /\ UNCHANGED search_result
           ELSE /\ search_result' = [search_result EXCEPT ![c] = got.value]
                /\ pc' = [pc EXCEPT ![c] = "context"]
                /\ UNCHANGED outcome
    /\ Logged(c, <<"search_done">>)
    /\ running' = c
    /\ UNCHANGED <<sessvars, query_text, use_search_enhancement, query, context,
                   prompt, response, tvars, svars, cvars, rvars>>

\* contents = [...]; search_answer = ...; context = ...
Context(c) ==
    /\ running = c
    /\ pc[c] = "context"
    /\ LET built == BuildContext(search_result[c])
       IN IF built.exc # "none"
          THEN /\ outcome' = [outcome EXCEPT ![c] = Raised(built.exc, <<>>)]
               /\ pc' = [pc EXCEPT ![c] = "raised"]
               /\ UNCHANGED context
          ELSE /\ context' = [context EXCEPT ![c] = built.value]
               /\ pc' = [pc EXCEPT ![c] = "prompt"]
               /\ UNCHANGED outcome
    /\ Logged(c, <<"context">>)
    /\ UNCHANGED <<sessvars, running, query_text, use_search_enhancement, query,
                   search_result, prompt, response, tvars, svars, cvars, rvars>>

\* The messages are assembled from query and context, and the completion
\* is handed to the executor.
ModelCall(c) ==
    /\ running = c
    /\ pc[c] = "prompt"
    /\ prompt' = [prompt EXCEPT ![c] = [query |-> query[c], context |-> context[c]]]
    /\ Logged(c, <<"prompt", "model_call">>)
    /\ pc' = [pc EXCEPT ![c] = "await_model"]
    /\ running' = 0
    /\ UNCHANGED <<sessvars, query_text, use_search_enhancement, query, search_result,
                   context, response, outcome, tvars, svars, cvars, rvars>>

\* The completion has ended; a raise of the SDK call is not inside any try.
ModelResume(c) ==
    /\ running = 0
    /\ pc[c] = "await_model"
    /\ \E resp \in FeedbackResponses :
        IF resp.kind = "raise"
        THEN /\ outcome' = [outcome EXCEPT ![c] = Raised("APIError", <<>>)]
             /\ pc' = [pc EXCEPT ![c] = "raised"]
             /\ UNCHANGED response
        ELSE /\ response' = [response EXCEPT ![c] = resp]
             /\ pc' = [pc EXCEPT ![c] = "parse"]
             /\ UNCHANGED outcome
    /\ Logged(c, <<"model_done">>)
    /\ running' = c
    /\ UNCHANGED <<sessvars, query_text, use_search_enhancement, query, search_result,
                   context, prompt, tvars, svars, cvars, rvars>>

\* The try / except json.JSONDecodeError around the parse.
Parse(c) ==
    /\ running = c
    /\ pc[c] = "parse"
    /\ LET got == FeedbackParse(response[c])
       IN /\ outcome' = [outcome EXCEPT ![c] =
                            IF got.exc # "none" THEN Raised(got.exc, <<>>) ELSE got]
          /\ pc' = [pc EXCEPT ![c] = IF got.exc # "none" THEN "raised" ELSE "returned"]
    /\ Logged(c, <<"parse">>)
    /\ UNCHANGED <<sessvars, running, query_text, use_search_enhancement, query,
                   search_result, context, prompt, response, tvars, svars, cvars, rvars>>

\* generate_feedback has returned: session.set_questions(questions) and the
\* rest of on_get_questions_fixed.
SetQuestions(c) ==
    /\ running = c
    /\ pc[c] = "returned"
    /\ session_questions' = outcome[c].value
    /\ questions_for' = query_text[c]
    /\ pc' = [pc EXCEPT ![c] = "done"]
    /\ running' = 0
    /\ DropFrame(c)
    /\ UNCHANGED <<session_query, tvars, svars, cvars, rvars>>

\* generate_feedback has raised: on_get_questions_fixed has no handler.
Propagate(c) ==
    /\ running = c
    /\ pc[c] = "raised"
    /\ pc' = [pc EXCEPT ![c] = "failed"]
    /\ running' = 0
    /\ DropFrame(c)
    /\ UNCHANGED <<sessvars, tvars, svars, cvars, rvars>>

\* ResearchSession.__init__
InitSession ==
    /\ session_query = <<>>
    /\ session_questions = <<>>
    /\ session_answers = <<>>

InitFrames ==
    /\ questions_for = <<>>
    /\ running = 0
    /\ pc = [c \in Calls |-> "idle"]
    /\ query_text = [c \in Calls |-> <<>>]
    /\ use_search_enhancement = [c \in Calls |-> FALSE]
    /\ query = [c \in Calls |-> <<>>]
    /\ search_result = [c \in Calls |-> EmptyResult]
    /\ context = [c \in Calls |-> EmptyContext]
    /\ prompt = [c \in Calls |-> NoPrompt]
    /\ response = [c \in Calls |-> NoResp]
    /\ outcome = [c \in Calls |-> Ok(<<>>)]
    /\ log = [c \in Calls |-> <<>>]

IdleC ==
    /\ c_pc = "off"
    /\ combined = <<>>

InitF == InitSession /\ InitFrames /\ IdleC

Next ==
    \E c \in Calls :
        \/ Invoke(c)
        \/ Start(c)
        \/ Normalize(c)
        \/ NormalizeResume(c)
        \/ Search(c)
        \/ SearchResume(c)
        \/ Context(c)
        \/ ModelCall(c)
        \/ ModelResume(c)
        \/ Parse(c)
        \/ SetQuestions(c)
        \/ Propagate(c)

(***************************************************************************)
(* app.py: ResearchSession.get_combined_query                              *)
(***************************************************************************)
MaxPairs == 2

CombinedQueries == {<<>>, <<"A">>, <<"U+4E00", "A">>}
QuestionTexts == {"Q1?", "Q2?"}
AnswerTexts == {"A1", "A2"}

\* zip(self.questions, self.answers)
Zip(questions, answers) ==
    [i \in 1..Min(Len(questions), Len(answers)) |-> <<questions[i], answers[i]>>]

\* f"Q: {q}\nA: {a}"
QaBlock(pair) == <<"Q: ", pair[1], "\n", "A: ", pair[2]>>

\* As Join, with the separator after every block.
RECURSIVE JoinTrailing(_, _)
JoinTrailing(sep, blocks) ==
    IF blocks = <<>> THEN <<>>
    ELSE blocks[1] \o sep \o JoinTrailing(sep, Tail(blocks))

\* sep.join(blocks)
RECURSIVE Join(_, _)
Join(sep, blocks) ==
    IF blocks = <<>> THEN <<>>
    ELSE IF Len(blocks) = 1 THEN blocks[1]
    ELSE blocks[1] \o sep \o Join(sep, Tail(blocks))

GetCombinedQuery(q, questions, answers) ==
    LET qa_pairs == Zip(questions, answers)
        qa_text == Join(<<"\n">>, [i \in 1..Len(qa_pairs) |-> QaBlock(qa_pairs[i])])
    IN <<"Initial Query: ">> \o q
       \o <<"\n", "Follow-up Questions and Answers:", "\n">> \o qa_text

\* ---- stand-alone call on a session holding any query, questions, answers
C_Call ==
    /\ c_pc = "start"
    /\ combined' = GetCombinedQuery(session_query, session_questions, session_answers)
    /\ c_pc' = "done"
    /\ UNCHANGED <<session_answers, tvars, svars, fvars, rvars>>

InitC ==
    /\ c_pc = "start"
    /\ combined = <<>>
    /\ session_query \in CombinedQueries
    /\ session_questions \in SeqsUpTo(QuestionTexts, MaxPairs)
    /\ session_answers \in SeqsUpTo(AnswerTexts, MaxPairs)

NextCombined == C_Call

(***************************************************************************)
(* app.py: on_start_research_async and research_handler                    *)
(*                                                                         *)
(* The text of an answer box is one token.  The NumBoxes boxes are all     *)
(* passed to the handler; a box beyond the questions shown is hidden and   *)
(* holds the empty string.                                                 *)
(***************************************************************************)
NumBoxes == 10

BoxTexts == {"", " ", "A1", " A2 "}

\* a.strip()
Strip(a) ==
    CASE a = " " -> ""
      [] a = " A2 " -> "A2"
      [] OTHER -> a

\* a and a.strip() != ""
IsValidAnswer(a) == a # "" /\ Strip(a) # ""

\* valid_answers = [a for a in answers if a and a.strip() != ""]
RECURSIVE ValidAnswers(_)
ValidAnswers(answers) ==
    IF answers = <<>> THEN <<>>
    ELSE (IF IsValidAnswer(answers[1]) THEN <<answers[1]>> ELSE <<>>)
         \o ValidAnswers(Tail(answers))

\* What the user may have typed into the boxes shown for n questions.
BoxFillings(n) ==
    {[i \in 1..NumBoxes |-> IF i <= Len(shown) THEN shown[i] ELSE ""] :
        shown \in {t \in SeqsUpTo(BoxTexts, n) : Len(t) = n}}

\* ResearchSession.__init__: report_language, breadth, depth
InitParams == [report_language |-> "zh", breadth |-> 4, depth |-> 2]

ParamChoices ==
    {[report_language |-> l, breadth |-> b, depth |-> 2] :
        l \in {"zh", "en"}, b \in {2, 4}}

\* on_start_research_async up to the await of deep_research in
\* research_handler: the answers and parameters are stored in the session
\* and the combined query is built from it.
R_Call ==
    /\ r_pc = "start"
    /\ \E args \in BoxFillings(Min(Len(session_questions), NumBoxes)),
          params \in ParamChoices :
        LET valid_answers == ValidAnswers(args)
        IN /\ boxes' = args
           /\ session_answers' = valid_answers
           /\ session_params' = params
           /\ research_query' =
                GetCombinedQuery(session_query, session_questions, valid_answers)
    /\ r_pc' = "await_research"
    /\ UNCHANGED <<report_prompt, c_pc, combined, tvars, svars, fvars>>

\* deep_research has ended: on a return the combined query is built again
\* for write_final_report; a raise has no handler.
R_Research ==
    /\ r_pc = "await_research"
    /\ \E ok \in BOOLEAN :
        IF ok
        THEN /\ report_prompt' =
                    GetCombinedQuery(session_query, session_questions, session_answers)
             /\ r_pc' = "await_report"
        ELSE /\ r_pc' = "failed"
             /\ UNCHANGED report_prompt
    /\ UNCHANGED <<boxes, session_params, research_query, cvars, tvars, svars, fvars>>

\* write_final_report has ended: the results are returned, or it raised.
R_Report ==
    /\ r_pc = "await_report"
    /\ \E ok \in BOOLEAN : r_pc' = IF ok THEN "done" ELSE "failed"
    /\ UNCHANGED <<boxes, session_params, research_query, report_prompt,
                   cvars, tvars, svars, fvars>>

\* The session once questions have been generated for a query.
InitR ==
    /\ r_pc = "start"
    /\ boxes = <<>>
    /\ session_params = InitParams
    /\ research_query = <<>>
    /\ report_prompt = <<>>
    /\ session_query \in CombinedQueries
    /\ session_questions \in SeqsUpTo(QuestionTexts, MaxPairs)
    /\ session_answers = <<>>

IdleR ==
    /\ r_pc = "off"
    /\ boxes = <<>>
    /\ session_params = InitParams
    /\ research_query = <<>>
    /\ report_prompt = <<>>

NextResearch == R_Call \/ R_Research \/ R_Report

InitT ==
    /\ t_pc = "start"
    /\ t_text \in Texts
    /\ t_resp = NoResp
    /\ t_ret = Ok(<<>>)
    /\ t_calls = 0

IdleT ==
    /\ t_pc = "off"
    /\ t_text = <<>>
    /\ t_resp = NoResp
    /\ t_ret = Ok(<<>>)
    /\ t_calls = 0

IdleS ==
    /\ s_pc = "off"
    /\ s_engine = "none"
    /\ s_limit = 0
    /\ s_request = <<>>
    /\ s_outcome = <<>>
    /\ s_ret = <<>>

NextTranslate == T_Call \/ T_Resume

InitTranslate == InitT /\ IdleS /\ InitF /\ IdleR

SpecTranslate == InitTranslate /\ [][NextTranslate]_vars

InitSearch == IdleT /\ InitS /\ InitF /\ IdleR

SpecSearch == InitSearch /\ [][NextSearch]_vars

Init == IdleT /\ IdleS /\ InitF /\ IdleR

InitCombined == IdleT /\ IdleS /\ InitFrames /\ InitC /\ IdleR

InitResearch == IdleT /\ IdleS /\ InitFrames /\ IdleC /\ InitR

Spec == Init /\ [][Next]_vars

SpecCombined == InitCombined /\ [][NextCombined]_vars

SpecResearch == InitResearch /\ [][NextResearch]_vars

(***************************************************************************)
(* Properties.                                                             *)
(***************************************************************************)
IsPrefix(a, b) == Len(a) <= Len(b) /\ SubSeq(b, 1, Len(a)) = a

\* generate_feedback has ended, by a return or by a raise.
Ended(c) == pc[c] \in {"returned", "raised"}

\* C1: generate_feedback never raises to its caller, whatever the translation
\* call, the search call and the final model call end in: it always returns
\* a list of questions.
C1_NeverRaises == \A c \in Calls : pc[c] # "raised"

\* C2: translate_to_english never raises; when the model call raises, or its
\* response is not JSON, or is no object, or has no translation field, it
\* returns the input, and otherwise the value of the translation field.
C2_TranslateFallback ==
    t_pc = "done" =>
        /\ t_ret.exc = "none"
        /\ t_calls > 0 =>
            t_ret.value = IF t_resp.kind = "object" /\ t_resp.has
                          THEN t_resp.val ELSE t_text

C2_Witness ==
    /\ t_pc = "done"
    /\ t_resp.kind = "nonobject"
    /\ t_ret = Ok(t_text)

\* A payload that has none of the shapes the provider documents.
MalformedFirecrawl(out) ==
    \/ out.shape \in {"dict_other", "other"}
    \/ out.shape = "dict_data" /\ out.data.t # "list"

MalformedTavily(out) ==
    \/ out.shape = "nondict"
    \/ /\ out.shape = "dict"
       /\ \/ ~out.has_results
          \/ out.results.t # "list"
          \/ \E i \in 1..Len(out.results.items) :
                ~out.results.items[i].isdict \/ out.results.items[i].date_none

\* C3: for both backends search never raises, and whenever the provider call
\* raises or its payload is malformed, search returns an empty hit list and
\* no answer.
C3_GatewayNormalization ==
    s_pc = "done" =>
        /\ s_ret.exc = "none"
        /\ (\/ s_outcome.shape = "raise"
            \/ s_engine = "firecrawl" /\ MalformedFirecrawl(s_outcome)
            \/ s_engine = "tavily" /\ MalformedTavily(s_outcome))
           => /\ s_ret.value.data = PyList(<<>>)
              /\ ~s_ret.value.has_answer

\* C4: for both backends the request issued for search(q, n) asks the
\* provider for at most n hits.
C4_LimitForwarded ==
    s_pc \in {"await", "done"} =>
        \E k \in {"limit", "max_results"} \cap DOMAIN s_request : s_request[k] = s_limit

\* C5: with search enhancement off, generate_feedback issues exactly one
\* model call, no translation call and no search call, builds the prompt
\* from the original query and an empty context, and returns the questions
\* array of the response unchanged.
C5_EnhancementOff ==
    \A c \in Calls :
        (Ended(c) /\ ~use_search_enhancement[c]) =>
            /\ Count(log[c], "model_call") = 1
            /\ Count(log[c], "translate_call") = 0
            /\ Count(log[c], "search_call") = 0
            /\ prompt[c] = [query |-> query_text[c], context |-> EmptyContext]
            /\ (pc[c] = "returned" /\ response[c].kind = "object" /\ response[c].has)
               => outcome[c] = Ok(response[c].val)

C5_Witness ==
    \E c \in Calls :
        /\ pc[c] = "returned"
        /\ ~use_search_enhancement[c]
        /\ query_text[c] = <<"U+4E00">>
        /\ outcome[c] = Ok(<<"Q1?", "Q2?", "Q3?">>)

\* C6: when the final model call returns text that is not JSON, or a JSON
\* object with no questions field, generate_feedback returns the empty list
\* and does not raise.
C6_MalformedResponse ==
    \A c \in Calls :
        (/\ Ended(c)
         /\ \/ response[c].kind = "invalid"
            \/ response[c].kind = "object" /\ ~response[c].has)
        => /\ pc[c] = "returned"
           /\ outcome[c] = Ok(<<>>)

C6_Witness ==
    \E c \in Calls :
        /\ pc[c] = "returned"
        /\ response[c].kind = "invalid"
        /\ outcome[c] = Ok(<<>>)

\* The token the claimed framing has at position p of the part after the
\* header: pair i takes six positions, the last of them the newline that
\* separates it from pair i + 1.
FramedToken(questions, answers, p) ==
    LET i == ((p - 1) \div 6) + 1
        r == (p - 1) % 6
    IN CASE r = 0 -> "Q: "
         [] r = 1 -> questions[i]
         [] r = 2 -> "\n"
         [] r = 3 -> "A: "
         [] r = 4 -> answers[i]
         [] OTHER -> "\n"

\* C7: for questions and answers of equal length, get_combined_query returns
\* "Initial Query: {q}\nFollow-up Questions and Answers:\n" followed by the
\* blocks "Q: {question_i}\nA: {answer_i}" in index order, separated by a
\* single newline, with no newline after the last pair.
C7_CombinedFraming ==
    (c_pc = "done" /\ Len(session_questions) = Len(session_answers)) =>
        LET n == Len(session_questions)
            header == <<"Initial Query: ">> \o session_query
                      \o <<"\n", "Follow-up Questions and Answers:", "\n">>
            body == [p \in 1..(IF n = 0 THEN 0 ELSE 6 * n - 1) |->
                        FramedToken(session_questions, session_answers, p)]
        IN combined = header \o body

C7_Witness ==
    /\ c_pc = "done"
    /\ session_query = <<"A">>
    /\ session_questions = <<"Q1?", "Q2?">>
    /\ session_answers = <<"A1", "A2">>
    /\ combined = <<"Initial Query: ", "A", "\n", "Follow-up Questions and Answers:", "\n",
                    "Q: ", "Q1?", "\n", "A: ", "A1", "\n", "Q: ", "Q2?", "\n", "A: ", "A2">>

\* A character of U+4E00..U+9FFF.
InCjkRange(text) == \E i \in 1..Len(text) : Ord(text[i]) \in 19968..40959

\* C8: for a string with no character in U+4E00..U+9FFF, translate_to_english
\* returns the identical string and issues no model call; a model call is
\* issued only when the input has a character in that range.
C8_DetectionPurity ==
    /\ t_calls > 0 => InCjkRange(t_text)
    /\ (t_pc = "done" /\ ~InCjkRange(t_text)) => (t_ret = Ok(t_text) /\ t_calls = 0)

C8_Witness ==
    /\ t_pc = "done"
    /\ t_text = <<"U+4DFF", "U+A000">>
    /\ t_ret = Ok(t_text)
    /\ t_calls = 0

\* The steps of one invocation with search enhancement on, with and without
\* a translation call.
StepOrder ==
    <<"normalize", "translate_call", "normalize_done", "search", "search_call",
      "search_done", "context", "prompt", "model_call", "model_done", "parse">>

StepOrderUntranslated ==
    <<"normalize", "normalize_done", "search", "search_call",
      "search_done", "context", "prompt", "model_call", "model_done", "parse">>

\* C9: with search enhancement on, the steps of one invocation occur in the
\* order Normalize, Search, Build Context, Prompt, Model Call, Parse, none
\* beginning before its predecessor has completed, and each external call
\* is attempted at most once.
C9_StepOrder ==
    \A c \in Calls :
        use_search_enhancement[c] =>
            /\ IsPrefix(log[c], StepOrder) \/ IsPrefix(log[c], StepOrderUntranslated)
            /\ pc[c] = "returned" => log[c] \in {StepOrder, StepOrderUntranslated}

C9_Witness ==
    \E c \in Calls :
        /\ pc[c] = "returned"
        /\ use_search_enhancement[c]
        /\ log[c] = StepOrder
        /\ search_result[c] = EmptyResult

\* C10: once concurrent on_get_questions_fixed calls have all completed,
\* session.questions is the list that was generated for the query stored in
\* session.query.
C10_SessionConsistent ==
    (\A c \in Calls : pc[c] = "done") => questions_for = session_query

\* The number of question and answer pairs in a combined query built for
\* query q, and the pair at place j of it.
PairCount(q, text) == (Len(text) - (Len(q) + 4) + 1) \div 6

PairAt(q, text, j) ==
    LET at == Len(q) + 4 + 6 * (j - 1)
    IN <<text[at + 2], text[at + 5]>>

\* C11: in the combined query built by on_start_research_async every answer
\* is paired with the question of the box it was entered in: a non-blank
\* answer in box i is in the pair of question i, and the answer in the pair
\* of question j is the one entered in box j.
C11_AnswersPairedByBox ==
    r_pc # "start" /\ r_pc # "off" =>
        LET n == PairCount(session_query, research_query)
        IN /\ \A i \in 1..Min(Len(session_questions), NumBoxes) :
                IsValidAnswer(boxes[i]) =>
                    /\ i <= n
                    /\ PairAt(session_query, research_query, i)
                         = <<session_questions[i], boxes[i]>>
           /\ \A j \in 1..n :
                PairAt(session_query, research_query, j)[2] = boxes[j]

====
